---- MODULE Spec2Model ----
(***************************************************************************)
(* A model of fmp_data_munge.py: the row composition engine (process_row,  *)
(* build_uri, reduce_list), the authority term cache (build_uri_dict) and  *)
(* the derived-field pipeline of main().                                   *)
(*                                                                         *)
(* A Python str is a sequence of one-character strings, so that            *)
(* str.split('|'), '|'.join and str.lower are computed, not assumed.       *)
(* A pandas row is a function from column names to cell strings.           *)
(* A raised exception is carried as the field exc of a result record;      *)
(* exc = NoExc means the call returned normally.                           *)
(***************************************************************************)
EXTENDS Integers, Sequences, FiniteSets, TLC

VARIABLES
    call,       \* the last direct call of a function and what it produced
    pc,         \* position of main() in its fixed sequence of passes
    df,         \* the DataFrame: a sequence of rows
    values,     \* build_uri_dict: the terms its loop has not visited yet
    uri_dict,   \* build_uri_dict: the term -> URI mapping built so far
    api_calls,  \* how often api_call was invoked per term in this build
    web,        \* what the remote service answered so far, per request
    exc,        \* the exception that ended main(), or NoExc
    run,        \* 1: first run of main(); 2: the run on its own output
    first       \* the table the first run of main() produced

vars == <<call, pc, df, values, uri_dict, api_calls, web, exc, run, first>>

----------------------------------------------------------------------------
(* Bounds of the model. *)

\* the most '|'-slices a generated cell holds
MaxPos == 2

\* the most rows of a generated Subject Heading column
MaxRows == 2

----------------------------------------------------------------------------
(* Python values. *)

\* None where a str is expected: a one-element sequence whose element is
\* not a character, so it differs from every str
None == <<"None">>

\* None where a column name or a function reference is expected
NoneRef == "<None>"

\* no exception was raised
NoExc == ""

\* the two ValueErrors of process_row, told apart by their messages
MaskValueError == "ValueError: Both mask_column and mask_value must be provided"

ChunkValueError ==
    "ValueError: FormattedOutput must specify both 'function' and 'kwargs' or neither"

UPPER ==
    <<"A", "B", "C", "D", "E", "F", "G", "H", "I", "J", "K", "L", "M",
      "N", "O", "P", "Q", "R", "S", "T", "U", "V", "W", "X", "Y", "Z">>

LOWER ==
    <<"a", "b", "c", "d", "e", "f", "g", "h", "i", "j", "k", "l", "m",
      "n", "o", "p", "q", "r", "s", "t", "u", "v", "w", "x", "y", "z">>

\* one character of str.lower()
lower_char(c) ==
    IF \E k \in DOMAIN UPPER : UPPER[k] = c
    THEN LOWER[CHOOSE k \in DOMAIN UPPER : UPPER[k] = c]
    ELSE c

\* str.lower()
lower(s) == [k \in 1..Len(s) |-> lower_char(s[k])]

\* str.split('|'): never an empty list; ''.split('|') is ['']
RECURSIVE split(_)
split(s) ==
    IF \A k \in 1..Len(s) : s[k] # "|"
    THEN <<s>>
    ELSE LET k == CHOOSE k \in 1..Len(s) :
                      s[k] = "|" /\ \A j \in 1..(k - 1) : s[j] # "|"
         IN  <<SubSeq(s, 1, k - 1)>> \o split(SubSeq(s, k + 1, Len(s)))

\* '|'.join(list)
RECURSIVE join(_)
join(list) ==
    IF list = <<>> THEN <<>>
    ELSE IF Len(list) = 1 THEN list[1]
    ELSE list[1] \o <<"|">> \o join(Tail(list))

\* str.endswith(suffix)
endswith(s, suffix) ==
    /\ Len(s) >= Len(suffix)
    /\ SubSeq(s, Len(s) - Len(suffix) + 1, Len(s)) = suffix

\* row[name] = value on a pandas Series: replaces the cell or appends the column
set_cell(row, name, value) ==
    [c \in (DOMAIN row) \cup {name} |-> IF c = name THEN value ELSE row[c]]

----------------------------------------------------------------------------
(* build_uri *)

auth_dict_keys == {<<"l", "c">>, <<"v", "i", "a", "f">>}

auth_dict(key) ==
    IF key = <<"l", "c">>
    THEN <<"h", "t", "t", "p", ":", "/", "/", "i", "d", ".", "l", "o", "c",
           ".", "g", "o", "v", "/", "a", "u", "t", "h", "o", "r", "i", "t",
           "i", "e", "s", "/", "n", "a", "m", "e", "s", "/">>
    ELSE <<"h", "t", "t", "p", ":", "/", "/", "v", "i", "a", "f", ".", "o",
           "r", "g", "/", "v", "i", "a", "f", "/">>

\* mutant: an unknown authority code is passed through as "no URI"
build_uri_lenient(authority, id) ==
    IF authority = None \/ authority = <<>>
    THEN [exc |-> NoExc, val |-> None]
    ELSE IF lower(authority) \in auth_dict_keys
    THEN [exc |-> NoExc, val |-> auth_dict(lower(authority)) \o id]
    ELSE [exc |-> NoExc, val |-> None]

build_uri(authority, id) ==
    IF authority = None \/ authority = <<>>
    THEN [exc |-> NoExc, val |-> None]
    ELSE IF lower(authority) = <<"l", "o", "c", "a", "l">>
    THEN [exc |-> NoExc, val |-> None]
    ELSE IF lower(authority) \notin auth_dict_keys
    THEN [exc |-> "KeyError", val |-> None]
    ELSE [exc |-> NoExc, val |-> auth_dict(lower(authority)) \o id]

----------------------------------------------------------------------------
(* create_formatted_date *)

create_formatted_date(start_date, end_date) ==
    LET s == IF start_date = None \/ start_date = <<>> THEN <<>> ELSE <<start_date>>
        e == IF end_date = None \/ end_date = <<>> THEN <<>> ELSE <<end_date>>
        parts == s \o e
    IN  IF Len(parts) = 2
        THEN parts[1] \o <<" ", "-", " ">> \o parts[2]
        ELSE IF Len(parts) = 1 THEN parts[1] ELSE <<>>

----------------------------------------------------------------------------
(* reduce_list *)

\* zip(values.split('|'), flags) stops at the shorter of the two
RECURSIVE reduce_zip(_, _)
reduce_zip(slices, flags) ==
    IF slices = <<>> \/ flags = <<>> THEN <<>>
    ELSE (IF Head(flags) THEN <<Head(slices)>> ELSE <<>>)
         \o reduce_zip(Tail(slices), Tail(flags))

reduce_list(vals, flags) ==
    [exc |-> NoExc, val |-> join(reduce_zip(split(vals), flags))]

----------------------------------------------------------------------------
(* FormattedOutput and process_row *)

\* kwargs is None, or a dict given by its items in insertion order
NoKwargs == [is_dict |-> FALSE, items |-> <<>>]

Kwargs(items) == [is_dict |-> TRUE, items |-> items]

FormattedOutput(text, column_name, function, kwargs) ==
    [text |-> text, column_name |-> column_name,
     function |-> function, kwargs |-> kwargs]

\* the functions a chunk may reference, and their parameter names
function_params(function) ==
    IF function = "build_uri" THEN {"authority", "id"}
    ELSE {"start_date", "end_date"}

\* chunk.function(**built_kwargs)
call_function(function, built_kwargs) ==
    IF DOMAIN built_kwargs # function_params(function)
    THEN [exc |-> "TypeError", val |-> None]
    ELSE IF function = "build_uri"
    THEN build_uri(built_kwargs["authority"], built_kwargs["id"])
    ELSE [exc |-> NoExc,
          val |-> create_formatted_date(built_kwargs["start_date"],
                                        built_kwargs["end_date"])]

\* row[column].split('|')[i], i counted from 0
slice_at(row, column, i) ==
    IF column \notin DOMAIN row THEN [exc |-> "KeyError", val |-> None]
    ELSE IF i + 1 > Len(split(row[column])) THEN [exc |-> "IndexError", val |-> None]
    ELSE [exc |-> NoExc, val |-> split(row[column])[i + 1]]

\* the loop over chunk.kwargs.items() that fills built_kwargs; s is the
\* slice read for the first of the items
RECURSIVE build_kwargs(_, _, _, _), build_kwargs_next(_, _, _, _, _)
build_kwargs(row, items, i, built) ==
    IF items = <<>> THEN [exc |-> NoExc, val |-> built]
    ELSE build_kwargs_next(row, items, i, built, slice_at(row, Head(items)[2], i))

build_kwargs_next(row, items, i, built, s) ==
    IF s.exc # NoExc THEN [exc |-> s.exc, val |-> built]
    ELSE build_kwargs(row, Tail(items), i,
                      [p \in (DOMAIN built) \cup {Head(items)[1]} |->
                          IF p = Head(items)[1] THEN s.val ELSE built[p]])

\* chunk.function(**built_kwargs), when built_kwargs could be built
call_built(function, kw) ==
    IF kw.exc # NoExc THEN [exc |-> kw.exc, val |-> None]
    ELSE call_function(function, kw.val)

\* formatted_text += v, for what a slice lookup or a function call produced:
\* adding None to a str raises TypeError
add_to_text(text, v) ==
    IF v.exc # NoExc THEN [exc |-> v.exc, val |-> text]
    ELSE IF v.val = None THEN [exc |-> "TypeError", val |-> text]
    ELSE [exc |-> NoExc, val |-> text \o v.val]

\* "if chunk.function:" with its body
function_part(row, chunk, i, text) ==
    IF chunk.function = NoneRef THEN [exc |-> NoExc, val |-> text]
    ELSE add_to_text(text, call_built(chunk.function,
                                      build_kwargs(row, chunk.kwargs.items, i, <<>>)))

\* "if chunk.column_name:" with its body
column_part(row, chunk, i, text) ==
    IF chunk.column_name = NoneRef \/ chunk.column_name = ""
    THEN [exc |-> NoExc, val |-> text]
    ELSE add_to_text(text, slice_at(row, chunk.column_name, i))

\* "if chunk.text:" with its body
text_part(chunk, text) ==
    IF chunk.text = None \/ chunk.text = <<>> THEN text ELSE text \o chunk.text

\* c: formatted_text after the text and the column of the chunk
function_part_after(row, chunk, i, c) ==
    IF c.exc # NoExc THEN c ELSE function_part(row, chunk, i, c.val)

\* the body of "for chunk in output_format" for one chunk
compose_chunk(row, chunk, i, text) ==
    IF (chunk.function # NoneRef) # chunk.kwargs.is_dict
    THEN [exc |-> ChunkValueError, val |-> text]
    ELSE function_part_after(row, chunk, i,
                             column_part(row, chunk, i, text_part(chunk, text)))

\* "for chunk in output_format": formatted_text for position i; c is
\* formatted_text after the first of the chunks
RECURSIVE compose(_, _, _, _), compose_next(_, _, _, _)
compose(row, output_format, i, text) ==
    IF output_format = <<>> THEN [exc |-> NoExc, val |-> text]
    ELSE compose_next(row, output_format, i,
                      compose_chunk(row, Head(output_format), i, text))

compose_next(row, output_format, i, c) ==
    IF c.exc # NoExc THEN c ELSE compose(row, Tail(output_format), i, c.val)

\* values_to_process when a mask is given
mask_flags(row, mask_column, mask_value) ==
    [k \in 1..Len(split(row[mask_column])) |->
        lower(split(row[mask_column])[k]) = lower(mask_value)]

\* "if mask_column and mask_value": both given and both non-empty
mask_given(mask_column, mask_value) ==
    /\ mask_column # NoneRef /\ mask_column # ""
    /\ mask_value # None /\ mask_value # <<>>

\* values_to_process
values_to_process(row, mask_column, mask_value) ==
    IF mask_given(mask_column, mask_value)
    THEN mask_flags(row, mask_column, mask_value)
    ELSE [k \in 1..Cardinality(DOMAIN row) |-> TRUE]

\* "for i, value in enumerate(values_to_process)" from position i on; c is
\* formatted_text of position i
RECURSIVE compose_all(_, _, _, _, _), compose_all_next(_, _, _, _, _, _)
compose_all(row, output_format, flags, i, out) ==
    IF i >= Len(flags) THEN [exc |-> NoExc, val |-> out]
    ELSE IF ~flags[i + 1] THEN compose_all(row, output_format, flags, i + 1, out)
    ELSE compose_all_next(row, output_format, flags, i, out,
                          compose(row, output_format, i, <<>>))

compose_all_next(row, output_format, flags, i, out, c) ==
    IF c.exc # NoExc THEN [exc |-> c.exc, val |-> out]
    ELSE compose_all(row, output_format, flags, i + 1, Append(out, c.val))

\* mutant: the check of the mask arguments is left out
mask_arguments_unchecked(mask_column, mask_value) == FALSE

\* isinstance(mask_column, str) ^ isinstance(mask_value, str)
mask_arguments_bad(mask_column, mask_value) ==
    (mask_column # NoneRef) # (mask_value # None)

\* mutant: the new column is extended when the row already has it, instead
\* of being replaced
write_column_appending(row, new_column_name, r) ==
    IF r.exc # NoExc THEN [exc |-> r.exc, row |-> row]
    ELSE [exc |-> NoExc,
          row |-> set_cell(row, new_column_name,
                           (IF new_column_name \in DOMAIN row
                            THEN row[new_column_name] ELSE <<>>) \o join(r.val))]

\* row[new_column_name] = '|'.join(formatted_output_values); return row.
\* r: formatted_output_values, or the exception raised on the way (the row
\* is written only here, so a raise leaves it untouched)
write_column(row, new_column_name, r) ==
    IF r.exc # NoExc THEN [exc |-> r.exc, row |-> row]
    ELSE [exc |-> NoExc, row |-> set_cell(row, new_column_name, join(r.val))]

\* process_row: the row it returns, or the exception it raises
process_row(row, new_column_name, output_format, mask_column, mask_value) ==
    IF mask_arguments_bad(mask_column, mask_value)
    THEN [exc |-> MaskValueError, row |-> row]
    ELSE IF mask_given(mask_column, mask_value) /\ mask_column \notin DOMAIN row
    THEN [exc |-> "KeyError", row |-> row]
    ELSE write_column(row, new_column_name,
                      compose_all(row, output_format,
                                  values_to_process(row, mask_column, mask_value),
                                  0, <<>>))

----------------------------------------------------------------------------
(* add_nameCorpCreatorLocal_column *)

\* the try/except IndexError cascade: s, t are the first slices of
\* 'Organization Name_sources' and of 'Organization Name_subjects'
local_name(s, t) ==
    IF s.exc # "IndexError" THEN s
    ELSE IF t.exc # "IndexError" THEN t
    ELSE [exc |-> NoExc, val |-> <<>>]

\* row['nameCorpCreatorLocal'] = n, or the exception of computing n
set_local_name(row, n) ==
    IF n.exc # NoExc THEN [exc |-> n.exc, row |-> row]
    ELSE [exc |-> NoExc, row |-> set_cell(row, "nameCorpCreatorLocal", n.val)]

add_nameCorpCreatorLocal_column(row) ==
    IF "nameCorpCreatorLC" \notin DOMAIN row
    THEN [exc |-> "KeyError", row |-> row]
    ELSE IF row["nameCorpCreatorLC"] # <<>>
    THEN [exc |-> NoExc, row |-> set_cell(row, "nameCorpCreatorLocal", <<>>)]
    ELSE IF "nameCorpCreatorVIAF" \notin DOMAIN row
    THEN [exc |-> "KeyError", row |-> row]
    ELSE IF row["nameCorpCreatorVIAF"] # <<>>
    THEN [exc |-> NoExc, row |-> set_cell(row, "nameCorpCreatorLocal", <<>>)]
    ELSE set_local_name(row,
                        local_name(slice_at(row, "Organization Name_sources", 0),
                                   slice_at(row, "Organization Name_subjects", 0)))

----------------------------------------------------------------------------
(* The remote service and the two functions that call it. *)

\* what requests.head / requests.get produce: an exception, or a response
\* with its ok flag, its final url (head) and the record's @type list (get;
\* has_record: the JSON holds a dict whose '@id' is the requested uri)
Raises(e) == [raises |-> e, ok |-> FALSE, url |-> <<>>,
              has_record |-> FALSE, types |-> {}]

HeadResponse(ok, url) == [raises |-> NoExc, ok |-> ok, url |-> url,
                          has_record |-> FALSE, types |-> {}]

GetResponse(ok, has_record, types) ==
    [raises |-> NoExc, ok |-> ok, url |-> <<>>,
     has_record |-> has_record, types |-> types]

dot_json == <<".", "j", "s", "o", "n">>

\* lc_get_subject_uri, given what requests.head does for the term
lc_get_subject_uri(response) ==
    IF response.raises # NoExc THEN [exc |-> response.raises, val |-> None]
    ELSE IF ~response.ok THEN [exc |-> NoExc, val |-> None]
    ELSE IF endswith(response.url, dot_json)
    THEN [exc |-> NoExc, val |-> SubSeq(response.url, 1, Len(response.url) - 5)]
    ELSE [exc |-> NoExc, val |-> response.url]

\* lc_get_name_type, given what requests.get does for the uri
lc_get_name_type(response) ==
    IF response.raises # NoExc THEN [exc |-> response.raises, val |-> None]
    ELSE IF ~response.ok THEN [exc |-> NoExc, val |-> None]
    ELSE IF ~response.has_record THEN [exc |-> "IndexError", val |-> None]
    ELSE IF response.types = {} THEN [exc |-> NoExc, val |-> None]
    ELSE IF "CorporateName" \in response.types
    THEN [exc |-> NoExc, val |-> <<"C", "o", "r", "p", "o", "r", "a", "t", "e">>]
    ELSE IF "PersonalName" \in response.types
    THEN [exc |-> NoExc, val |-> <<"P", "e", "r", "s", "o", "n", "a", "l">>]
    ELSE [exc |-> NoExc, val |-> None]

----------------------------------------------------------------------------
(* get_unique_values_from_column, add_subjectTopics *)

\* the elements of a list, as a set
elements(list) == {list[k] : k \in 1..Len(list)}

\* mutant: the cells are collected whole, without the split
get_unique_values_unsplit(column) == elements(column)

\* column: the cells of one column, top to bottom
get_unique_values_from_column(column) ==
    UNION {elements(split(column[r])) : r \in 1..Len(column)}

\* uri_dict.get(term, None)
dict_get(dict, term) == IF term \in DOMAIN dict THEN dict[term] ELSE None

\* the loop of add_subjectTopics from term k on: <<uri_terms, local_terms>>
RECURSIVE sort_terms(_, _, _, _, _), sort_term(_, _, _, _, _, _)
sort_terms(subject_terms, dict, k, uri_terms, local_terms) ==
    IF k > Len(subject_terms) THEN <<uri_terms, local_terms>>
    ELSE sort_term(subject_terms, dict, k, uri_terms, local_terms,
                   dict_get(dict, subject_terms[k]))

\* "if uri:" for term k, uri being uri_dict.get(term, None)
sort_term(subject_terms, dict, k, uri_terms, local_terms, uri) ==
    IF uri # None /\ uri # <<>>
    THEN sort_terms(subject_terms, dict, k + 1,
                    Append(uri_terms, subject_terms[k] \o <<" ">> \o uri),
                    local_terms)
    ELSE sort_terms(subject_terms, dict, k + 1,
                    uri_terms, Append(local_terms, subject_terms[k]))

\* "if not uri_terms: uri_terms = ['']", the same for local_terms
or_empty(terms) == IF terms = <<>> THEN <<<<>>>> ELSE terms

\* the two assignments that end add_subjectTopics
set_subject_topics(row, sorted) ==
    [exc |-> NoExc,
     row |-> set_cell(set_cell(row, "subjectTopicsLC", join(or_empty(sorted[1]))),
                      "subjectTopicsLocal", join(or_empty(sorted[2])))]

\* mutant: the cell is looked up whole instead of slice by slice
add_subjectTopics_unsplit(row, dict) ==
    IF "Subject Heading" \notin DOMAIN row THEN [exc |-> "KeyError", row |-> row]
    ELSE set_subject_topics(row,
                            sort_terms(<<row["Subject Heading"]>>, dict, 1,
                                       <<>>, <<>>))

add_subjectTopics(row, dict) ==
    IF "Subject Heading" \notin DOMAIN row THEN [exc |-> "KeyError", row |-> row]
    ELSE set_subject_topics(row,
                            sort_terms(split(row["Subject Heading"]), dict, 1,
                                       <<>>, <<>>))

----------------------------------------------------------------------------
(* make_name_type_column, handle_person_and_corp_lc_names *)

w_LCNAF == <<"L", "C", "N", "A", "F">>

\* the position (from 1) of the first 'LCNAF' among the authorities
first_lcnaf(authorities) ==
    CHOOSE i \in 1..Len(authorities) :
        /\ authorities[i] = w_LCNAF
        /\ \A j \in 1..(i - 1) : authorities[j] # w_LCNAF

\* uri = uris[i] for the first i whose authority is 'LCNAF'
lcnaf_uri(authorities, uris) ==
    IF first_lcnaf(authorities) > Len(uris) THEN [exc |-> "IndexError", val |-> None]
    ELSE IF uris[first_lcnaf(authorities)] = <<>> THEN [exc |-> NoExc, val |-> None]
    ELSE [exc |-> NoExc, val |-> uris[first_lcnaf(authorities)]]

\* the uri make_name_type_column looks up (the comparison with 'LCNAF' is
\* case-sensitive); val = None when it looks nothing up
name_type_uri(row, uri_column, authority_column) ==
    IF authority_column \notin DOMAIN row THEN [exc |-> "KeyError", val |-> None]
    ELSE IF w_LCNAF \notin elements(split(row[authority_column]))
    THEN [exc |-> NoExc, val |-> None]
    ELSE IF uri_column \notin DOMAIN row THEN [exc |-> "KeyError", val |-> None]
    ELSE lcnaf_uri(split(row[authority_column]), split(row[uri_column]))

\* row['Name Type'] = name_type, '' for None
set_name_type(row, name_type) ==
    IF name_type.exc # NoExc THEN [exc |-> name_type.exc, row |-> row]
    ELSE [exc |-> NoExc,
          row |-> set_cell(row, "Name Type",
                           IF name_type.val = None THEN <<>> ELSE name_type.val)]

\* u: the uri to look up; answers: what requests.get does, per uri
name_type_of(u, answers) ==
    IF u.exc # NoExc THEN [exc |-> u.exc, val |-> None]
    ELSE IF u.val = None THEN [exc |-> NoExc, val |-> None]
    ELSE lc_get_name_type(answers[u.val])

make_name_type_column(row, uri_column, authority_column, answers) ==
    set_name_type(row, name_type_of(name_type_uri(row, uri_column, authority_column),
                                    answers))

creator_format ==
    << FormattedOutput(None, "Organization Name_sources", NoneRef, NoKwargs),
       FormattedOutput(<<" ">>, NoneRef, NoneRef, NoKwargs),
       FormattedOutput(None, "URI", NoneRef, NoKwargs) >>

\* r: what process_row did; then row[name] = ''
then_empty(r, name) ==
    IF r.exc # NoExc THEN r
    ELSE [exc |-> NoExc, row |-> set_cell(r.row, name, <<>>)]

handle_person_and_corp_lc_names(row) ==
    IF "Name Type" \notin DOMAIN row THEN [exc |-> "KeyError", row |-> row]
    ELSE IF row["Name Type"] = <<>>
    THEN then_empty(then_empty([exc |-> NoExc, row |-> row], "namePersonCreatorLC"),
                    "nameCorpCreatorLC")
    ELSE IF row["Name Type"] = <<"P", "e", "r", "s", "o", "n", "a", "l">>
    THEN then_empty(process_row(row, "namePersonCreatorLC", creator_format,
                                "Source", w_LCNAF),
                    "nameCorpCreatorLC")
    ELSE IF row["Name Type"] = <<"C", "o", "r", "p", "o", "r", "a", "t", "e">>
    THEN then_empty(process_row(row, "nameCorpCreatorLC", creator_format,
                                "Source", w_LCNAF),
                    "namePersonCreatorLC")
    ELSE [exc |-> NoExc, row |-> row]

\* mutant: nameCorpCreatorVIAF is kept whatever nameCorpCreatorLC holds
keep_viaf_always(row) ==
    IF "nameCorpCreatorLC" \notin DOMAIN row \/ "nameCorpCreatorVIAF" \notin DOMAIN row
    THEN [exc |-> "KeyError", row |-> row]
    ELSE [exc |-> NoExc, row |-> row]

\* main's lambda: nameCorpCreatorVIAF is kept only when nameCorpCreatorLC is empty
keep_viaf_if_no_lc(row) ==
    IF "nameCorpCreatorLC" \notin DOMAIN row \/ "nameCorpCreatorVIAF" \notin DOMAIN row
    THEN [exc |-> "KeyError", row |-> row]
    ELSE [exc |-> NoExc,
          row |-> set_cell(row, "nameCorpCreatorVIAF",
                           IF row["nameCorpCreatorLC"] = <<>>
                           THEN row["nameCorpCreatorVIAF"] ELSE <<>>)]

----------------------------------------------------------------------------
(* Inputs of the direct calls. *)

\* the cells of up to n slices drawn from S
Cells(S, n) == {join(t) : t \in UNION {[1..k -> S] : k \in 1..n}}

w_local == <<"l", "o", "c", "a", "l">>
w_Local == <<"L", "o", "c", "a", "l">>
w_LOCAL == <<"L", "O", "C", "A", "L">>
w_viaf == <<"v", "i", "a", "f">>
w_VIAF == <<"V", "I", "A", "F">>
w_lc == <<"l", "c">>
w_LC == <<"L", "C">>
w_bogus == <<"b", "o", "g", "u", "s">>

\* rows with the columns Name, Source and (not always) Id
UnitRows ==
    {[Name |-> n, Source |-> s, Id |-> i] :
        n \in Cells({<<"S">>, <<"J">>}, MaxPos) \cup {<<>>},
        s \in Cells({w_Local, w_viaf, <<>>}, MaxPos),
        i \in Cells({<<"7">>}, MaxPos) \cup {<<>>}}
    \cup
    {[Name |-> n, Source |-> s] :
        n \in Cells({<<"S">>, <<"J">>}, MaxPos) \cup {<<>>},
        s \in Cells({w_Local, w_viaf, <<>>}, MaxPos)}
    \cup
    {[Name |-> join(<<<<"S">>, <<"J">>, <<"L">>>>),
      Source |-> join(<<w_LCNAF, w_local, w_VIAF>>)]}

col(name) == FormattedOutput(None, name, NoneRef, NoKwargs)

lit(text) == FormattedOutput(text, NoneRef, NoneRef, NoKwargs)

fun(function, items) == FormattedOutput(None, NoneRef, function, Kwargs(items))

uri_chunk == fun("build_uri", <<<<"authority", "Source">>, <<"id", "Id">>>>)

UnitFormats ==
    { <<col("Name")>>,
      <<lit(<<"t">>)>>,
      <<col("Name"), lit(<<" ">>), col("Id")>>,
      <<col("Name"), lit(<<",", " ">>), uri_chunk>>,
      <<fun("create_formatted_date", <<<<"start_date", "Name">>, <<"end_date", "Id">>>>)>>,
      <<FormattedOutput(None, NoneRef, "build_uri", NoKwargs)>> }

UnitMaskColumns == {NoneRef, "Source"}

UnitMaskValues == {None, <<>>, w_local, w_VIAF}

UnitAuthorities ==
    {None, <<>>, w_lc, w_LC, w_viaf, w_VIAF, w_local, w_Local, w_LOCAL,
     w_bogus, <<"x">>, w_LCNAF}

UnitIds == {<<>>, <<"1", "2", "3">>, <<"n", "7", "9">>}

UnitValues == Cells({<<"a">>, <<"b">>, <<>>}, MaxPos + 1)

UnitFlags == UNION {[1..k -> BOOLEAN] : k \in 0..(MaxPos + 1)}

----------------------------------------------------------------------------
(* The functions called directly, one call per step. *)

Idle ==
    /\ pc = "idle"
    /\ df = <<>>
    /\ values = {}
    /\ uri_dict = <<>>
    /\ api_calls = <<>>
    /\ web = <<>>
    /\ exc = NoExc
    /\ run = 1
    /\ first = <<>>

pipeline_vars == <<pc, df, values, uri_dict, api_calls, web, exc, run, first>>

\* a call that has been made and has not returned yet
BuildUriCalls ==
    {[fn |-> "build_uri", returned |-> FALSE, authority |-> authority, id |-> id] :
        authority \in UnitAuthorities, id \in UnitIds}

ReduceListCalls ==
    {[fn |-> "reduce_list", returned |-> FALSE, vals |-> vals, flags |-> flags] :
        vals \in UnitValues, flags \in UnitFlags}

ProcessRowCalls ==
    {[fn |-> "process_row", returned |-> FALSE, row |-> row,
      output_format |-> output_format,
      mask_column |-> mask_column, mask_value |-> mask_value] :
        row \in UnitRows, output_format \in UnitFormats,
        mask_column \in UnitMaskColumns, mask_value \in UnitMaskValues}

InitUnits ==
    /\ call \in BuildUriCalls \cup ReduceListCalls \cup ProcessRowCalls
    /\ Idle

\* the call returns (or raises): result is what it produced
Return(result) ==
    [a \in (DOMAIN call) \cup {"result"} |->
        IF a = "result" THEN result
        ELSE IF a = "returned" THEN TRUE
        ELSE call[a]]

CallBuildUri ==
    /\ call.fn = "build_uri" /\ ~call.returned
    /\ call' = Return(build_uri(call.authority, call.id))
    /\ UNCHANGED pipeline_vars

CallReduceList ==
    /\ call.fn = "reduce_list" /\ ~call.returned
    /\ call' = Return(reduce_list(call.vals, call.flags))
    /\ UNCHANGED pipeline_vars

CallProcessRow ==
    /\ call.fn = "process_row" /\ ~call.returned
    /\ call' = Return(process_row(call.row, "New", call.output_format,
                                  call.mask_column, call.mask_value))
    /\ UNCHANGED pipeline_vars

NextUnits == CallBuildUri \/ CallReduceList \/ CallProcessRow

SpecUnits == InitUnits /\ [][NextUnits]_vars

----------------------------------------------------------------------------
(* add_subjectTopics called directly, with the mappings build_uri_dict can
   return: it stores a uri only under "if uri:", so no entry is empty. *)

UnitTerms == {<<"a">>, <<"b">>, <<>>}

UnitUris == {<<"u">>, <<"s", "/", "1">>}

UnitDicts == UNION {[D -> UnitUris] : D \in SUBSET UnitTerms}

AddSubjectTopicsCalls ==
    {[fn |-> "add_subjectTopics", returned |-> FALSE,
      row |-> [c \in {"Subject Heading"} |-> heading], dict |-> dict] :
        heading \in Cells(UnitTerms, MaxPos + 1), dict \in UnitDicts}

InitTopics ==
    /\ call \in AddSubjectTopicsCalls
    /\ Idle

CallAddSubjectTopics ==
    /\ call.fn = "add_subjectTopics" /\ ~call.returned
    /\ call' = Return(add_subjectTopics(call.row, call.dict))
    /\ UNCHANGED pipeline_vars

NextTopics == CallAddSubjectTopics

SpecTopics == InitTopics /\ [][NextTopics]_vars

----------------------------------------------------------------------------
(* main(): the passes over the table, in their fixed order. *)

person_viaf_format ==
    << FormattedOutput(None, "Authoritized Name", NoneRef, NoKwargs),
       FormattedOutput(<<",", " ">>, NoneRef, NoneRef, NoKwargs),
       FormattedOutput(None, "Position", NoneRef, NoKwargs),
       FormattedOutput(<<" ">>, NoneRef, NoneRef, NoKwargs),
       FormattedOutput(None, NoneRef, "build_uri",
                       Kwargs(<<<<"authority", "Authority Used">>,
                                <<"id", "Authority ID">>>>)) >>

person_local_format ==
    << FormattedOutput(None, "Authoritized Name", NoneRef, NoKwargs),
       FormattedOutput(<<",", " ">>, NoneRef, NoneRef, NoKwargs),
       FormattedOutput(None, "Position", NoneRef, NoKwargs) >>

corp_viaf_format ==
    << FormattedOutput(None, "Organization Name_sources", NoneRef, NoKwargs),
       FormattedOutput(<<" ">>, NoneRef, NoneRef, NoKwargs),
       FormattedOutput(None, "URI", NoneRef, NoKwargs) >>

\* df.apply(f, axis=1), results[r] being what f does for row r: the
\* exception of the first row that raises, or NoExc
first_exc(results) ==
    IF \A r \in 1..Len(results) : results[r].exc = NoExc THEN NoExc
    ELSE results[CHOOSE r \in 1..Len(results) :
                     /\ results[r].exc # NoExc
                     /\ \A q \in 1..(r - 1) : results[q].exc = NoExc].exc

\* one pass of main: new_df = new_df.apply(...), or main ends in the exception
Pass(here, next, results) ==
    /\ pc = here
    /\ IF first_exc(results) = NoExc
       THEN /\ df' = [r \in 1..Len(df) |-> results[r].row]
            /\ pc' = next
            /\ exc' = exc
       ELSE /\ df' = df
            /\ pc' = "aborted"
            /\ exc' = first_exc(results)

\* the remote service answers a repeated request as it answered before
Answer(key, response) ==
    /\ key \in DOMAIN web => response = web[key]
    /\ web' = IF key \in DOMAIN web THEN web ELSE web @@ (key :> response)

SubjectResponses ==
    { Raises("ConnectionError"),
      HeadResponse(FALSE, <<"l", "/", "x">>),
      HeadResponse(TRUE, <<"s", "/", "1">> \o dot_json),
      HeadResponse(TRUE, <<"s", "/", "2">>) }

NameResponses ==
    { Raises("ConnectionError"),
      GetResponse(FALSE, FALSE, {}),
      GetResponse(TRUE, FALSE, {}),
      GetResponse(TRUE, TRUE, {}),
      GetResponse(TRUE, TRUE, {"Authority", "CorporateName"}),
      GetResponse(TRUE, TRUE, {"Authority", "PersonalName"}) }

AddNamePersonOtherVIAF ==
    /\ Pass("namePersonOtherVIAF", "namePersonOtherLocal",
            [r \in 1..Len(df) |->
                process_row(df[r], "namePersonOtherVIAF", person_viaf_format,
                            "Authority Used", w_viaf)])
    /\ UNCHANGED <<call, values, uri_dict, api_calls, web, run, first>>

AddNamePersonOtherLocal ==
    /\ Pass("namePersonOtherLocal", "make_name_type_column",
            [r \in 1..Len(df) |->
                process_row(df[r], "namePersonOtherLocal", person_local_format,
                            "Authority Used", w_local)])
    /\ UNCHANGED <<call, values, uri_dict, api_calls, web, run, first>>

\* the uris the rows of the table look up in make_name_type_column
name_type_uris ==
    {name_type_uri(df[r], "URI", "Source").val : r \in 1..Len(df)} \ {None}

MakeNameTypeColumn ==
    \E answers \in [name_type_uris -> NameResponses] :
        /\ \A u \in name_type_uris :
              <<"name", u>> \in DOMAIN web => answers[u] = web[<<"name", u>>]
        /\ web' = [k \in (DOMAIN web) \cup {<<"name", u>> : u \in name_type_uris} |->
                      IF k \in DOMAIN web THEN web[k] ELSE answers[k[2]]]
        /\ Pass("make_name_type_column", "handle_person_and_corp_lc_names",
                [r \in 1..Len(df) |->
                    make_name_type_column(df[r], "URI", "Source", answers)])
        /\ UNCHANGED <<call, values, uri_dict, api_calls, run, first>>

HandlePersonAndCorpLcNames ==
    /\ Pass("handle_person_and_corp_lc_names", "nameCorpCreatorVIAF",
            [r \in 1..Len(df) |-> handle_person_and_corp_lc_names(df[r])])
    /\ UNCHANGED <<call, values, uri_dict, api_calls, web, run, first>>

AddNameCorpCreatorVIAF ==
    /\ Pass("nameCorpCreatorVIAF", "keep_viaf_if_no_lc",
            [r \in 1..Len(df) |->
                process_row(df[r], "nameCorpCreatorVIAF", corp_viaf_format,
                            "Source", w_VIAF)])
    /\ UNCHANGED <<call, values, uri_dict, api_calls, web, run, first>>

KeepViafIfNoLc ==
    /\ Pass("keep_viaf_if_no_lc", "nameCorpCreatorLocal",
            [r \in 1..Len(df) |-> keep_viaf_if_no_lc(df[r])])
    /\ UNCHANGED <<call, values, uri_dict, api_calls, web, run, first>>

AddNameCorpCreatorLocal ==
    /\ Pass("nameCorpCreatorLocal", "get_unique_values",
            [r \in 1..Len(df) |-> add_nameCorpCreatorLocal_column(df[r])])
    /\ UNCHANGED <<call, values, uri_dict, api_calls, web, run, first>>

\* unique_subjects = get_unique_values_from_column(new_df['Subject Heading']),
\* and build_uri_dict is entered with an empty uri_dict
GetUniqueValues ==
    /\ pc = "get_unique_values"
    /\ values' = get_unique_values_from_column(
                     [r \in 1..Len(df) |-> df[r]["Subject Heading"]])
    /\ uri_dict' = <<>>
    /\ api_calls' = <<>>
    /\ pc' = "build_uri_dict"
    /\ UNCHANGED <<call, df, web, exc, run, first>>

\* api_call(value) is invoked once more
counted(calls, value) ==
    [t \in (DOMAIN calls) \cup {value} |->
        IF t = value
        THEN (IF t \in DOMAIN calls THEN calls[t] + 1 ELSE 1)
        ELSE calls[t]]

\* one iteration of "for value in values" (a set: any order)
BuildUriDictStep ==
    /\ pc = "build_uri_dict"
    /\ \E value \in values, response \in SubjectResponses :
          /\ Answer(<<"subject", value>>, response)
          /\ api_calls' = counted(api_calls, value)
          /\ LET uri == lc_get_subject_uri(response)
             IN  IF uri.exc # NoExc
                 THEN /\ pc' = "aborted"
                      /\ exc' = uri.exc
                      /\ UNCHANGED <<uri_dict, values>>
                 ELSE /\ uri_dict' =
                           IF uri.val # None /\ uri.val # <<>>
                           THEN [t \in (DOMAIN uri_dict) \cup {value} |->
                                    IF t = value THEN uri.val ELSE uri_dict[t]]
                           ELSE uri_dict
                      /\ values' = values \ {value}
                      /\ UNCHANGED <<pc, exc>>
    /\ UNCHANGED <<call, df, run, first>>

\* the loop is over: build_uri_dict returns uri_dict
BuildUriDictReturn ==
    /\ pc = "build_uri_dict"
    /\ values = {}
    /\ pc' = "add_subjectTopics"
    /\ UNCHANGED <<call, df, values, uri_dict, api_calls, web, exc, run, first>>

AddSubjectTopics ==
    /\ Pass("add_subjectTopics", "done",
            [r \in 1..Len(df) |-> add_subjectTopics(df[r], uri_dict)])
    /\ UNCHANGED <<call, values, uri_dict, api_calls, web, run, first>>

\* main() is run again, on the table it produced
RunAgain ==
    /\ pc = "done"
    /\ run = 1
    /\ run' = 2
    /\ first' = df
    /\ pc' = "namePersonOtherVIAF"
    /\ UNCHANGED <<call, df, values, uri_dict, api_calls, web, exc>>

----------------------------------------------------------------------------
(* The tables main() is run on. *)

\* a row from its four groups of columns
MainRow(people, sources, subjects_name, subject_heading) ==
    [c \in {"Authoritized Name", "Position", "Authority Used", "Authority ID",
            "Organization Name_sources", "Source", "URI",
            "Organization Name_subjects", "Subject Heading"} |->
        IF c \in DOMAIN people THEN people[c]
        ELSE IF c \in DOMAIN sources THEN sources[c]
        ELSE IF c = "Organization Name_subjects" THEN subjects_name
        ELSE subject_heading]

People(names, positions, authorities, ids) ==
    [c \in {"Authoritized Name", "Position", "Authority Used", "Authority ID"} |->
        IF c = "Authoritized Name" THEN names
        ELSE IF c = "Position" THEN positions
        ELSE IF c = "Authority Used" THEN authorities
        ELSE ids]

MainPeople ==
    { People(<<"S", "|", "D">>, <<"a", "|", "e">>,
             join(<<w_viaf, w_local>>), <<"1", "|">>),
      People(<<>>, <<>>, <<>>, <<>>),
      People(<<"S", "|", "D">>, <<"a">>, join(<<w_viaf, w_VIAF>>), <<"1", "|", "2">>) }

Sources(names, sources, uris) ==
    [c \in {"Organization Name_sources", "Source", "URI"} |->
        IF c = "Organization Name_sources" THEN names
        ELSE IF c = "Source" THEN sources
        ELSE uris]

\* one aligned position of the sources group: <<name, source, uri>>
SourceRecords ==
    { <<<<"O">>, w_LCNAF, <<"n", "1">>>>,
      <<<<"P">>, w_VIAF, <<"v", "2">>>> }

SourcesOf(t) ==
    Sources(join([k \in 1..Len(t) |-> t[k][1]]),
            join([k \in 1..Len(t) |-> t[k][2]]),
            join([k \in 1..Len(t) |-> t[k][3]]))

\* aligned groups of up to MaxPos positions, the empty group, groups with a
\* local source, a group whose name cell is empty, and one whose source is
\* written in lower case
MainSources ==
    {SourcesOf(t) : t \in UNION {[1..n -> SourceRecords] : n \in 1..MaxPos}}
    \cup
    { Sources(<<>>, <<>>, <<>>),
      Sources(<<"Q">>, w_local, <<>>),
      Sources(<<"Q", "|", "P">>, join(<<w_local, w_VIAF>>), <<"|", "v", "2">>),
      Sources(<<>>, join(<<w_local, w_VIAF>>), <<"|", "v", "2">>),
      Sources(<<"R">>, lower(w_LCNAF), <<"n", "3">>) }

MainSubjectNames == {<<>>, <<"T", "|", "U">>}

MainSubjectHeadings == {<<>>, <<"c">>, <<"c", "|", "d">>}

MainRows ==
    {MainRow(people, sources, subjects_name, subject_heading) :
        people \in MainPeople, sources \in MainSources,
        subjects_name \in MainSubjectNames,
        subject_heading \in MainSubjectHeadings}

\* a second row for the tables of two rows
SecondRow ==
    MainRow(People(<<"D">>, <<"e">>, w_Local, <<>>),
            Sources(<<"O">>, w_LCNAF, <<"n", "1">>),
            <<>>, <<"c">>)

MainTables == {<<row>> : row \in MainRows} \cup {<<row, SecondRow>> : row \in MainRows}

Init ==
    /\ call = [fn |-> "main"]
    /\ pc = "namePersonOtherVIAF"
    /\ df \in MainTables
    /\ values = {}
    /\ uri_dict = <<>>
    /\ api_calls = <<>>
    /\ web = <<>>
    /\ exc = NoExc
    /\ run = 1
    /\ first = <<>>

Next ==
    \/ AddNamePersonOtherVIAF
    \/ AddNamePersonOtherLocal
    \/ MakeNameTypeColumn
    \/ HandlePersonAndCorpLcNames
    \/ AddNameCorpCreatorVIAF
    \/ KeepViafIfNoLc
    \/ AddNameCorpCreatorLocal
    \/ GetUniqueValues
    \/ BuildUriDictStep
    \/ BuildUriDictReturn
    \/ AddSubjectTopics
    \/ RunAgain

Spec == Init /\ [][Next]_vars

----------------------------------------------------------------------------
(* The cache build alone, over a Subject Heading column. *)

CacheColumns ==
    UNION {[1..n -> Cells({<<"c">>, <<"d">>}, MaxPos) \cup {<<>>}] : n \in 1..MaxRows}

InitCache ==
    /\ call = [fn |-> "build_uri_dict"]
    /\ pc = "get_unique_values"
    /\ \E column \in CacheColumns :
          df = [r \in 1..Len(column) |-> [c \in {"Subject Heading"} |-> column[r]]]
    /\ values = {}
    /\ uri_dict = <<>>
    /\ api_calls = <<>>
    /\ web = <<>>
    /\ exc = NoExc
    /\ run = 1
    /\ first = <<>>

NextCache == GetUniqueValues \/ BuildUriDictStep \/ BuildUriDictReturn

SpecCache == InitCache /\ [][NextCache]_vars

----------------------------------------------------------------------------
(* Claims about the functions called directly. *)

Returned(fn) == call.fn = fn /\ call.returned

\* the positions (from 1) of the mask column whose slice equals the match
\* value case-insensitively, ascending
RECURSIVE IncludedFrom(_, _, _)
IncludedFrom(slices, mask_value, k) ==
    IF k > Len(slices) THEN <<>>
    ELSE (IF lower(slices[k]) = lower(mask_value) THEN <<k>> ELSE <<>>)
         \o IncludedFrom(slices, mask_value, k + 1)

Included(row, mask_column, mask_value) ==
    IncludedFrom(split(row[mask_column]), mask_value, 1)

\* C1: for every row and every mask (mask column, match value), process_row
\* writes to the new column the '|'-join of the composed strings of exactly
\* the positions whose slice of the mask column equals the match value
\* case-insensitively, in positional order, one slice per included position.
C1_MaskSelectsPositions ==
    (/\ Returned("process_row")
     /\ call.mask_column # NoneRef /\ call.mask_value # None
     /\ call.mask_column \in DOMAIN call.row
     /\ call.result.exc = NoExc)
    => LET inc == Included(call.row, call.mask_column, call.mask_value)
           composed == [k \in 1..Len(inc) |->
                           compose(call.row, call.output_format, inc[k] - 1, <<>>).val]
       IN  call.result.row["New"] = join(composed)

\* C2: with no mask the row has exactly one position: the template is
\* composed once, for position 0, and the new column holds that string.
C2_NoMaskOnePosition ==
    (/\ Returned("process_row")
     /\ call.mask_column = NoneRef /\ call.mask_value = None)
    => LET c == compose(call.row, call.output_format, 0, <<>>)
       IN  IF c.exc # NoExc
           THEN call.result.exc = c.exc
           ELSE /\ call.result.exc = NoExc
                /\ call.result.row["New"] = c.val

\* the template with every function reference taken out
strip_functions(output_format) ==
    [k \in 1..Len(output_format) |->
        FormattedOutput(output_format[k].text, output_format[k].column_name,
                        NoneRef, NoKwargs)]

\* the chunk's function returns "no value" for position i
NoValueAt(row, chunk, i) ==
    LET kw == build_kwargs(row, chunk.kwargs.items, i, <<>>)
    IN  /\ kw.exc = NoExc
        /\ call_function(chunk.function, kw.val) = [exc |-> NoExc, val |-> None]

\* C6: when a function chunk's function returns "no value" for a position,
\* composing the position succeeds, the chunk contributes nothing and the
\* other chunks contribute what they contribute without it.
C6_NoValueContributesNothing ==
    (/\ Returned("process_row")
     /\ mask_given(call.mask_column, call.mask_value)
     /\ \A k \in 1..Len(call.output_format) :
            (call.output_format[k].function # NoneRef) = call.output_format[k].kwargs.is_dict
     /\ \E k \in 1..Len(call.output_format) : call.output_format[k].function # NoneRef
     /\ Included(call.row, call.mask_column, call.mask_value) # <<>>
     /\ LET inc == Included(call.row, call.mask_column, call.mask_value)
        IN  \A n \in 1..Len(inc), k \in 1..Len(call.output_format) :
                call.output_format[k].function # NoneRef
                => NoValueAt(call.row, call.output_format[k], inc[n] - 1))
    => call.result = process_row(call.row, "New", strip_functions(call.output_format),
                                 call.mask_column, call.mask_value)

\* the row with every empty cell read as n empty slices
padded(row, n) ==
    [c \in DOMAIN row |->
        IF row[c] = <<>> THEN join([k \in 1..n |-> <<>>]) ELSE row[c]]

\* C7: a referenced column whose cell is the single empty string has no value
\* at every position: with a mask column of several positions, composing an
\* included position succeeds as if the cell held an empty slice there.
C7_EmptyCellIsNoValue ==
    (/\ Returned("process_row")
     /\ mask_given(call.mask_column, call.mask_value))
    => LET n == Len(split(call.row[call.mask_column]))
           p == process_row(padded(call.row, n), "New", call.output_format,
                            call.mask_column, call.mask_value)
       IN  /\ call.result.exc = p.exc
           /\ p.exc = NoExc => call.result.row["New"] = p.row["New"]

lc_names_uri(id) ==
    <<"h", "t", "t", "p", ":", "/", "/", "i", "d", ".", "l", "o", "c", ".",
      "g", "o", "v", "/", "a", "u", "t", "h", "o", "r", "i", "t", "i", "e",
      "s", "/", "n", "a", "m", "e", "s", "/">> \o id

viaf_uri(id) ==
    <<"h", "t", "t", "p", ":", "/", "/", "v", "i", "a", "f", ".", "o", "r",
      "g", "/", "v", "i", "a", "f", "/">> \o id

\* C3: build_uri returns the LC names URI for 'lc', the VIAF URI for 'viaf',
\* no URI for 'local' in any case, no URI and no error for a missing or empty
\* authority, and raises instead of returning for any other code.
C3_BuildUri ==
    Returned("build_uri")
    => LET a == call.authority
           r == call.result
       IN  /\ a = w_lc => r = [exc |-> NoExc, val |-> lc_names_uri(call.id)]
           /\ a = w_viaf => r = [exc |-> NoExc, val |-> viaf_uri(call.id)]
           /\ a \in {w_local, w_Local, w_LOCAL} => r = [exc |-> NoExc, val |-> None]
           /\ a \in {None, <<>>} => r = [exc |-> NoExc, val |-> None]
           /\ (a \notin {None, <<>>} /\ lower(a) \notin {w_lc, w_viaf, w_local})
                 => r.exc # NoExc

C3_Witness ==
    /\ Returned("build_uri")
    /\ call.authority = w_bogus
    /\ call.result.exc = "KeyError"

\* the slices of vals whose flag is true, when there is a flag per slice
RECURSIVE SelectedFrom(_, _, _)
SelectedFrom(slices, flags, k) ==
    IF k > Len(slices) THEN <<>>
    ELSE (IF flags[k] THEN <<slices[k]>> ELSE <<>>)
         \o SelectedFrom(slices, flags, k + 1)

\* C8: reduce_list returns the '|'-join of the slices whose flag is true, and
\* fails when the number of slices differs from the number of flags.
C8_ReduceList ==
    Returned("reduce_list")
    => IF Len(split(call.vals)) # Len(call.flags)
       THEN call.result.exc # NoExc
       ELSE call.result =
              [exc |-> NoExc,
               val |-> join(SelectedFrom(split(call.vals), call.flags, 1))]

\* C9: process_row fails with the mask argument error, the row unwritten,
\* whenever exactly one of mask column and mask value is supplied, and
\* never with that error when both or neither are.
C9_MaskArguments ==
    Returned("process_row")
    => LET one == (call.mask_column = NoneRef) # (call.mask_value = None)
       IN  /\ one => (call.result.exc = MaskValueError /\ call.result.row = call.row)
           /\ ~one => call.result.exc # MaskValueError

C9_Witness ==
    /\ Returned("process_row")
    /\ call.mask_column = "Source" /\ call.mask_value = None
    /\ call.result.exc = MaskValueError
    /\ "New" \notin DOMAIN call.result.row

----------------------------------------------------------------------------
(* Claims about the cache build and about main(). *)

\* the terms that occur among the '|'-slices of the Subject Heading column
SubjectTerms ==
    {t \in UNION {elements(split(df[r]["Subject Heading"])) : r \in 1..Len(df)} : TRUE}

\* C4: building the cache invokes the resolver exactly once for each distinct
\* term among the '|'-slices of the column, however many rows and positions
\* hold it, and never for a term that does not occur.
C4_ResolvedOncePerTerm ==
    /\ \A t \in DOMAIN api_calls : api_calls[t] = 1 /\ t \in SubjectTerms
    /\ pc = "add_subjectTopics" => DOMAIN api_calls = SubjectTerms

C4_Witness ==
    /\ pc = "add_subjectTopics"
    /\ Len(df) = 2
    /\ \E t \in DOMAIN api_calls :
          /\ t \in elements(split(df[1]["Subject Heading"]))
          /\ t \in elements(split(df[2]["Subject Heading"]))
          /\ df[1]["Subject Heading"] = join(<<t, t>>)
          /\ api_calls[t] = 1

\* the resolver failed for the request: it raised, or the response was not ok
Failed(response) == response.raises # NoExc \/ ~response.ok

\* C5: a resolver failure of any kind never aborts the build: the term is
\* left out of the mapping and the build goes on; every term resolved
\* successfully is in the mapping.
C5_FailuresRecovered ==
    /\ exc = NoExc
    /\ \A t \in DOMAIN api_calls :
          LET response == web[<<"subject", t>>]
          IN  (t \in DOMAIN uri_dict) = ~Failed(response)

DerivedColumns ==
    {"namePersonOtherVIAF", "namePersonOtherLocal", "Name Type",
     "namePersonCreatorLC", "nameCorpCreatorLC", "nameCorpCreatorVIAF",
     "nameCorpCreatorLocal", "subjectTopicsLC", "subjectTopicsLocal"}

\* C10: running main() again on the table it produced, the remote service
\* answering as before, ends with every derived column of every row as the
\* first run left it.
C10_SecondRunChangesNothing ==
    run = 2
    => /\ pc # "aborted"
       /\ pc = "done" =>
             \A r \in 1..Len(df), c \in DerivedColumns : df[r][c] = first[r][c]

C10_Witness ==
    /\ run = 2
    /\ pc = "done"
    /\ Len(df) = 2
    /\ df[1]["namePersonOtherVIAF"] # <<>>
    /\ df[1]["namePersonOtherLocal"] # <<>>
    /\ df[1]["nameCorpCreatorLC"] # <<>>
    /\ df[1]["subjectTopicsLC"] # <<>>
    /\ df[1]["subjectTopicsLocal"] # <<>>

----------------------------------------------------------------------------
(* Claims about the corporate name columns. *)

\* the passes that write the three nameCorpCreator columns have all run
CorpPassesDone ==
    pc \in {"get_unique_values", "build_uri_dict", "add_subjectTopics", "done"}

\* C11: after the passes have run in their order, in every row
\* nameCorpCreatorLocal is non-empty only if nameCorpCreatorLC and
\* nameCorpCreatorVIAF are both empty, and nameCorpCreatorVIAF is non-empty
\* only if nameCorpCreatorLC is empty: at most one of the three is non-empty.
C11_OneCorpCreatorName ==
    CorpPassesDone
    => \A r \in 1..Len(df) :
          /\ df[r]["nameCorpCreatorLocal"] # <<>>
                => (df[r]["nameCorpCreatorLC"] = <<>> /\ df[r]["nameCorpCreatorVIAF"] = <<>>)
          /\ df[r]["nameCorpCreatorVIAF"] # <<>> => df[r]["nameCorpCreatorLC"] = <<>>
          /\ Cardinality({c \in {"nameCorpCreatorLC", "nameCorpCreatorVIAF",
                                 "nameCorpCreatorLocal"} : df[r][c] # <<>>}) <= 1

\* a table whose first row has a VIAF source next to its LCNAF source and
\* keeps the LC name only, and whose second row has the LC name
C11_Witness ==
    /\ pc = "done"
    /\ Len(df) = 2
    /\ w_VIAF \in elements(split(df[1]["Source"]))
    /\ df[1]["nameCorpCreatorLC"] # <<>>
    /\ df[1]["nameCorpCreatorVIAF"] = <<>>
    /\ df[1]["nameCorpCreatorLocal"] = <<>>
    /\ df[2]["nameCorpCreatorLC"] # <<>>

\* C12: in a row whose nameCorpCreatorLC and nameCorpCreatorVIAF are empty,
\* nameCorpCreatorLocal is the first '|'-slice of 'Organization Name_sources'
\* when that cell has a name, and the first '|'-slice of
\* 'Organization Name_subjects' when that cell is empty.
C12_SourcesBeforeSubjects ==
    CorpPassesDone
    => \A r \in 1..Len(df) :
          (df[r]["nameCorpCreatorLC"] = <<>> /\ df[r]["nameCorpCreatorVIAF"] = <<>>)
          => df[r]["nameCorpCreatorLocal"] =
                IF df[r]["Organization Name_sources"] # <<>>
                THEN split(df[r]["Organization Name_sources"])[1]
                ELSE split(df[r]["Organization Name_subjects"])[1]

----------------------------------------------------------------------------
(* Claims about add_subjectTopics. *)

\* the terms among slices, from slice k on and in their order, that have
\* (mapped) or do not have (~mapped) an entry in the mapping
RECURSIVE TermsOf(_, _, _, _)
TermsOf(slices, dict, mapped, k) ==
    IF k > Len(slices) THEN <<>>
    ELSE (IF (slices[k] \in DOMAIN dict) = mapped THEN <<slices[k]>> ELSE <<>>)
         \o TermsOf(slices, dict, mapped, k + 1)

\* the cell of one side: its entries joined, the empty string without entries
SideOf(entries) == IF entries = <<>> THEN <<>> ELSE join(entries)

\* C13: add_subjectTopics partitions the '|'-slices of 'Subject Heading' by
\* the mapping: subjectTopicsLC holds 'term URI' for the terms with an entry,
\* subjectTopicsLocal holds the terms without one verbatim, each in the
\* terms' order, a side without terms is the empty string, and no term is
\* dropped or duplicated.
C13_SubjectTopicsPartition ==
    Returned("add_subjectTopics")
    => LET slices == split(call.row["Subject Heading"])
           with_uri == TermsOf(slices, call.dict, TRUE, 1)
           without == TermsOf(slices, call.dict, FALSE, 1)
       IN  /\ call.result.exc = NoExc
           /\ Len(with_uri) + Len(without) = Len(slices)
           /\ call.result.row["subjectTopicsLC"] =
                 SideOf([k \in 1..Len(with_uri) |->
                            with_uri[k] \o <<" ">> \o call.dict[with_uri[k]]])
           /\ call.result.row["subjectTopicsLocal"] = SideOf(without)
           /\ call.result.row["Subject Heading"] = call.row["Subject Heading"]

C13_Witness ==
    /\ Returned("add_subjectTopics")
    /\ call.row["Subject Heading"] = <<"b", "|", "a", "|", "b">>
    /\ DOMAIN call.dict = {<<"a">>}
    /\ call.result.row["subjectTopicsLC"] = <<"a", " ">> \o call.dict[<<"a">>]
    /\ call.result.row["subjectTopicsLocal"] = <<"b", "|", "b">>

====
